---- MODULE Spec2Model ----
(***************************************************************************)
(* Model of the two icon scripts of the repository:                        *)
(*   scripts/process_icons.py            (the exporter, process_icon)      *)
(*   scripts/generate_placeholder_icon.py (the generator,                  *)
(*                                         create_gradient_icon)           *)
(*                                                                         *)
(* The exporter is modelled as a sequential process over a file system     *)
(* (directories and files), one action per statement group of              *)
(* process_icon.  An image is a record of its provenance: the source it    *)
(* comes from, its dimensions, and the list of dimensions it has been      *)
(* resampled from (resampling is lossy, so an image resized twice differs  *)
(* from one resized once).  A file is a format and a sequence of encoded   *)
(* images.                                                                 *)
(*                                                                         *)
(* The generator's floating point values are modelled as exact rationals   *)
(* <<numerator, denominator>>; int() is truncation toward zero.            *)
(***************************************************************************)
EXTENDS Integers, Sequences, FiniteSets, TLC

VARIABLES
    \* ---- exporter (process_icons.py) ----
    pc,           \* position of the exporter script
    runs,         \* number of invocations of the script so far
    source_path,  \* sys.argv[1] of the current invocation
    dirs,         \* directories that exist below the project root
    fs,           \* files below the project root: path -> content
    img,          \* local img of process_icon
    resized,      \* local resized of process_icon
    k,            \* index of the loop over sizes.items()
    saves,        \* save calls of this invocation: [path, content, ok]
    output,       \* lines printed by this invocation
    failures,     \* I/O failures injected so far
    start,        \* dirs and fs as they were when this invocation began
    prev,         \* source and outcome of the previous invocation
    \* ---- generator (generate_placeholder_icon.py) ----
    gpc,          \* position of the generator script
    size,         \* parameter size of create_gradient_icon
    i,            \* loop variable of the stroke loop
    canvas,       \* draw operations applied to image, in order
    master,       \* what image.save wrote to output_path
    \* ---- evaluation of the loop body at a given t ----
    st,           \* input: [size, t]
    sres          \* result: the sample computed for st

evars == <<pc, runs, source_path, dirs, fs, img, resized, k, saves, output,
           failures, start, prev>>
gvars == <<gpc, size, i, canvas, master>>
svars == <<st, sres>>
vars == <<pc, runs, source_path, dirs, fs, img, resized, k, saves, output,
          failures, start, prev, gpc, size, i, canvas, master, st, sres>>

-----------------------------------------------------------------------------
\* Bounds of the model

\* invocations of the exporter in one behaviour
MaxRuns == 2
\* I/O failures injected in one behaviour
MaxFailures == 2
\* largest denominator of a parameter t the loop body is evaluated at
MaxDen == 8

-----------------------------------------------------------------------------
\* The file system around the exporter

\* process_icons.py:61-62, relative to the project root
TauriDir == "src-tauri/icons"
PublicDir == "public"

\* os.path.join(dir, name)
Join(dir, name) == <<dir, name>>

\* os.makedirs(d, exist_ok=True): d and its missing ancestors
Ancestors(d) ==
    IF d = "src-tauri/icons" THEN {"src-tauri", "src-tauri/icons"} ELSE {d}

MakeDirs(ds, d) == ds \cup Ancestors(d)

NoImg == [origin |-> "none", w |-> 0, h |-> 0, hist |-> <<>>]

\* An image as decoded from a file: never resampled.
Pristine(origin, w, h) == [origin |-> origin, w |-> w, h |-> h, hist |-> <<>>]

\* The files a user may name as the source.  "nope.png" is not among them.
\* They live outside the two destination directories and are never written.
SourceFiles ==
    [p \in {"icon_master.png", "banner.png", "broken.png"} |->
        CASE p = "icon_master.png" ->
                 [decodable |-> TRUE, image |-> Pristine("master", 1024, 1024)]
          [] p = "banner.png" ->
                 [decodable |-> TRUE, image |-> Pristine("banner", 100, 60)]
          [] OTHER ->
                 [decodable |-> FALSE, image |-> NoImg]]

SourcePaths == {"nope.png", "icon_master.png", "banner.png", "broken.png"}

\* Faulty variant of Exists: the existence check is missing.
ExistsAlways(path) == TRUE

\* os.path.exists(source_path)
Exists(path) == path \in DOMAIN SourceFiles

\* Image.open(source_path) of a decodable file
Loaded(path) == SourceFiles[path].image

\* Faulty variant of Resize: the aspect ratio is kept (as thumbnail does).
ResizeKeepAspect(im, sz) ==
    [origin |-> im.origin,
     w |-> IF im.w >= im.h THEN sz[1] ELSE (sz[1] * im.w) \div im.h,
     h |-> IF im.h >= im.w THEN sz[2] ELSE (sz[2] * im.h) \div im.w,
     hist |-> Append(im.hist, <<im.w, im.h>>)]

\* Image.resize(size, LANCZOS): a NEW image of exactly the requested size,
\* resampled from im.
Resize(im, sz) ==
    [origin |-> im.origin, w |-> sz[1], h |-> sz[2],
     hist |-> Append(im.hist, <<im.w, im.h>>)]

\* Faulty variant of ResizeStep: "img = img.resize(size, ...)".
ResizeStepInPlace(im, sz) == [img |-> Resize(im, sz), resized |-> Resize(im, sz)]

\* Line 37, "resized = img.resize(size, ...)": the values of the locals
\* img and resized after the statement.
ResizeStep(im, sz) == [img |-> im, resized |-> Resize(im, sz)]

\* The size table, in the insertion order of the dict literal.
Entry(name, w, h) == [name |-> name, size |-> <<w, h>>]

\* Faulty variant of sizes: the last entry reuses the name "icon.png".
sizesMisnamed ==
    << Entry("icon.png", 512, 512),
       Entry("32x32.png", 32, 32),
       Entry("128x128.png", 128, 128),
       Entry("128x128@2x.png", 256, 256),
       Entry("Square30x30Logo.png", 30, 30),
       Entry("Square44x44Logo.png", 44, 44),
       Entry("Square71x71Logo.png", 71, 71),
       Entry("Square89x89Logo.png", 89, 89),
       Entry("Square107x107Logo.png", 107, 107),
       Entry("Square142x142Logo.png", 142, 142),
       Entry("Square150x150Logo.png", 150, 150),
       Entry("Square284x284Logo.png", 284, 284),
       Entry("Square310x310Logo.png", 310, 310),
       Entry("icon.png", 50, 50) >>

\* Lines 17-32: sizes
sizes ==
    << Entry("icon.png", 512, 512),
       Entry("32x32.png", 32, 32),
       Entry("128x128.png", 128, 128),
       Entry("128x128@2x.png", 256, 256),
       Entry("Square30x30Logo.png", 30, 30),
       Entry("Square44x44Logo.png", 44, 44),
       Entry("Square71x71Logo.png", 71, 71),
       Entry("Square89x89Logo.png", 89, 89),
       Entry("Square107x107Logo.png", 107, 107),
       Entry("Square142x142Logo.png", 142, 142),
       Entry("Square150x150Logo.png", 150, 150),
       Entry("Square284x284Logo.png", 284, 284),
       Entry("Square310x310Logo.png", 310, 310),
       Entry("StoreLogo.png", 50, 50) >>

\* Faulty variant of ico_sizes: a 24x24 entry is added.
ico_sizesWith24 ==
    << <<256, 256>>, <<128, 128>>, <<64, 64>>, <<48, 48>>, <<32, 32>>,
       <<24, 24>>, <<16, 16>> >>

\* Line 42
ico_sizes ==
    << <<256, 256>>, <<128, 128>>, <<64, 64>>, <<48, 48>>, <<32, 32>>,
       <<16, 16>> >>

\* File contents
Png(im) == [fmt |-> "PNG", frames |-> <<im>>]

\* img.save(path, format='ICO', sizes=szs): one embedded bitmap per
\* requested size, each resampled from a copy of im (im itself is left
\* alone).  The encoder leaves out the sizes larger than im or than 256.
\* A frame's w and h are those of its directory entry.
IcoFits(im, sz) == sz[1] <= im.w /\ sz[2] <= im.h /\ sz[1] <= 256 /\ sz[2] <= 256

RECURSIVE IcoFrames(_, _)
IcoFrames(im, szs) ==
    IF szs = <<>> THEN <<>>
    ELSE IF IcoFits(im, Head(szs))
         THEN <<Resize(im, Head(szs))>> \o IcoFrames(im, Tail(szs))
         ELSE IcoFrames(im, Tail(szs))

Ico(im, szs) == [fmt |-> "ICO", frames |-> IcoFrames(im, szs)]

\* What a save that fails part-way may leave behind: the file opened for
\* writing, with nothing (complete) in it.
Truncated(content) == [fmt |-> content.fmt, frames |-> <<>>]

\* Faulty variant of SaveFile: an existing file is appended to.
SaveFileAppend(f, path, content) ==
    [q \in DOMAIN f \cup {path} |->
        IF q = path
        THEN IF path \in DOMAIN f
             THEN [fmt |-> content.fmt, frames |-> f[path].frames \o content.frames]
             ELSE content
        ELSE f[q]]

\* open(path, "wb") + write: the file holds exactly the new content.
SaveFile(f, path, content) ==
    [q \in DOMAIN f \cup {path} |-> IF q = path THEN content ELSE f[q]]

\* Faulty variant of OnSaveError: the error is caught and the save retried.
OnSaveErrorRetry(here) == here

\* An exception raised by a save at position `here` is caught nowhere in
\* process_icon nor in the main block: the script ends there.
OnSaveError(here) == "failed"

-----------------------------------------------------------------------------
\* Initial states of the exporter: a fresh checkout, a checkout with the
\* two directories, or one that already holds an older public icon.

EmptyFs == [q \in {} |-> Png(NoImg)]

StaleFs ==
    [q \in {Join(PublicDir, "icon.png"), Join(PublicDir, "webview-latency-test.html")} |->
        IF q[2] = "icon.png" THEN Png(Pristine("old", 192, 192))
        ELSE [fmt |-> "HTML", frames |-> <<>>]]

BothDirs == MakeDirs(MakeDirs({}, TauriDir), PublicDir)

InitExportIn(d, f) ==
    /\ pc = "shell"
    /\ runs = 0
    /\ source_path = "none"
    /\ dirs = d
    /\ fs = f
    /\ img = NoImg
    /\ resized = NoImg
    /\ k = 0
    /\ saves = <<>>
    /\ output = <<>>
    /\ failures = 0
    /\ start = [dirs |-> dirs, fs |-> fs]
    /\ prev = [src |-> "none", ok |-> FALSE]

InitExport ==
    \/ InitExportIn({}, EmptyFs)
    \/ InitExportIn(BothDirs, EmptyFs)
    \/ InitExportIn(BothDirs, StaleFs)

-----------------------------------------------------------------------------
\* The exporter, statement by statement

NoArg == "<no argument>"

\* Lines 53-64: the script is started from the project root.
Main ==
    /\ pc \in {"shell", "done", "failed", "usage"}
    /\ runs < MaxRuns
    /\ \E arg \in SourcePaths \cup {NoArg} :
          /\ runs' = runs + 1
          /\ start' = [dirs |-> dirs, fs |-> fs]
          /\ prev' = [src |-> source_path, ok |-> (pc = "done")]
          /\ img' = NoImg
          /\ resized' = NoImg
          /\ k' = 0
          /\ saves' = <<>>
          /\ IF arg = NoArg
             THEN /\ output' = <<<<"Usage: python process_icons.py <path_to_source_image>">>>>
                  /\ source_path' = "none"
                  /\ pc' = "usage"
             ELSE /\ output' = <<>>
                  /\ source_path' = arg
                  /\ pc' = "check"
    /\ UNCHANGED <<dirs, fs, failures>>
    /\ UNCHANGED <<gvars, svars>>

\* Lines 6-8
CheckSource ==
    /\ pc = "check"
    /\ IF ~Exists(source_path)
       THEN /\ output' = Append(output, <<"Error: Source file not found at", source_path>>)
            /\ pc' = "done"
       ELSE /\ pc' = "mkdirs"
            /\ UNCHANGED output
    /\ UNCHANGED <<runs, source_path, dirs, fs, img, resized, k, saves,
                   failures, start, prev>>
    /\ UNCHANGED <<gvars, svars>>

\* Lines 11-12
MakeDirectories ==
    /\ pc = "mkdirs"
    /\ dirs' = MakeDirs(MakeDirs(dirs, TauriDir), PublicDir)
    /\ pc' = "open"
    /\ UNCHANGED <<runs, source_path, fs, img, resized, k, saves, output,
                   failures, start, prev>>
    /\ UNCHANGED <<gvars, svars>>

\* Lines 14-34.  Image.open raises for a file that is missing or is no image.
OpenImage ==
    /\ pc = "open"
    /\ IF source_path \in DOMAIN SourceFiles /\ SourceFiles[source_path].decodable
       THEN /\ img' = Loaded(source_path)
            /\ output' = Append(output, <<"Processing icons from", source_path>>)
            /\ k' = 1
            /\ pc' = "loop"
       ELSE /\ pc' = "failed"
            /\ UNCHANGED <<img, output, k>>
    /\ UNCHANGED <<runs, source_path, dirs, fs, resized, saves, failures,
                   start, prev>>
    /\ UNCHANGED <<gvars, svars>>

\* A save call at the current position: it writes the file and the script
\* goes on, or it raises.
Save(path, content, msg, nextpc, nextk) ==
    \/ /\ fs' = SaveFile(fs, path, content)
       /\ saves' = Append(saves, [path |-> path, content |-> content, ok |-> TRUE])
       /\ output' = Append(output, msg)
       /\ pc' = nextpc
       /\ k' = nextk
       /\ UNCHANGED failures
    \/ /\ failures < MaxFailures
       /\ failures' = failures + 1
       /\ \E partial \in BOOLEAN :
             fs' = IF partial THEN SaveFile(fs, path, Truncated(content)) ELSE fs
       /\ saves' = Append(saves, [path |-> path, content |-> content, ok |-> FALSE])
       /\ pc' = OnSaveError(pc)
       /\ UNCHANGED <<output, k>>

\* Lines 36-39: one iteration of the loop over sizes.items()
LoopSave ==
    /\ pc = "loop"
    /\ k \in 1..Len(sizes)
    /\ LET e == sizes[k]
           r == ResizeStep(img, e.size)
       IN  /\ img' = r.img
           /\ resized' = r.resized
           /\ Save(Join(TauriDir, e.name), Png(r.resized),
                   <<"Saved", e.name, e.size>>,
                   IF k = Len(sizes) THEN "ico" ELSE "loop", k + 1)
    /\ UNCHANGED <<runs, source_path, dirs, start, prev>>
    /\ UNCHANGED <<gvars, svars>>

\* Lines 42-44
SaveIco ==
    /\ pc = "ico"
    /\ Save(Join(TauriDir, "icon.ico"), Ico(img, ico_sizes),
            <<"Saved icon.ico">>, "public", k)
    /\ UNCHANGED <<runs, source_path, dirs, img, resized, start, prev>>
    /\ UNCHANGED <<gvars, svars>>

\* Lines 50-51, then the function and the script return.
SavePublic ==
    /\ pc = "public"
    /\ Save(Join(PublicDir, "icon.png"), Png(Resize(img, <<512, 512>>)),
            <<"Saved public/icon.png">>, "done", k)
    /\ UNCHANGED <<runs, source_path, dirs, img, resized, start, prev>>
    /\ UNCHANGED <<gvars, svars>>

-----------------------------------------------------------------------------
\* The generator (generate_placeholder_icon.py).  A float is the exact
\* rational <<numerator, denominator>>, denominator > 0.

Abs(x) == IF x < 0 THEN -x ELSE x

\* int(num/den): truncation toward zero
Trunc(num, den) == IF num >= 0 THEN num \div den ELSE -((-num) \div den)

\* Lines 11, 22-24, 30, 67
bg_color == <<20, 20, 25>>
c1 == <<0, 198, 255>>
c2 == <<140, 50, 255>>
c3 == <<255, 30, 150>>
steps == 200
highlight_color == <<255, 255, 255, 20>>

\* The sizes create_gradient_icon is called with (1024 is the default).
GenSizes == {256, 512, 1024}

\* Faulty variant of T: t = i / steps.
TOverSteps(j) == <<j, steps>>

\* Line 38: t = i / (steps - 1)
T(j) == <<j, steps - 1>>

\* Line 40, with margin = size * 0.2 and width = size - 2 * margin:
\* x = size/5 + (3*size/5) * t
X(s, t) == <<s * (t[2] + 3 * t[1]), 5 * t[2]>>

\* Line 44: t < 0.5
FirstHalf(t) == 2 * t[1] < t[2]

\* Line 46: local_t = t * 2
LocalT1(t) == <<2 * t[1], t[2]>>

\* Faulty variant of LocalT2: local_t = t - 0.5.
LocalT2Unscaled(t) == <<2 * t[1] - t[2], 2 * t[2]>>

\* Line 52: local_t = (t - 0.5) * 2
LocalT2(t) == <<2 * t[1] - t[2], t[2]>>

\* Lines 47-49 and 53-55: int(a + (b - a) * local_t), per channel
Lerp(a, b, lt) == Trunc(a * lt[2] + (b - a) * lt[1], lt[2])

Segment(a, b, lt) ==
    <<Lerp(a[1], b[1], lt), Lerp(a[2], b[2], lt), Lerp(a[3], b[3], lt)>>

\* Lines 44-57: color = (r, g, b, 255)
Color(t) ==
    LET rgb == IF FirstHalf(t) THEN Segment(c1, c2, LocalT1(t))
                               ELSE Segment(c2, c3, LocalT2(t))
    IN  <<rgb[1], rgb[2], rgb[3], 255>>

\* Faulty variant of Thickness: 1 + 0.5 * abs(t - 0.5).
ThicknessGrowing(s, t) ==
    <<3 * s * (4 * t[2] + Abs(2 * t[1] - t[2])), 80 * t[2]>>

\* Line 60: thickness = (size * 0.15) * (1 - 0.5 * abs(t - 0.5))
\*   = (3*size/20) * (4d - |2n - d|) / (4d)      for t = n/d
Thickness(s, t) ==
    <<3 * s * (4 * t[2] - Abs(2 * t[1] - t[2])), 80 * t[2]>>

\* Lines 38-64: one iteration of the loop for the parameter t.  The
\* circle's centre is (x, y) with y = size/2 + sin(2*pi*t) * 0.3 * height;
\* y has no rational value and is left out of the sample.
LoopBody(s, t) ==
    LET th == Thickness(s, t)
    IN  [t |-> t, x |-> X(s, t), color |-> Color(t), thickness |-> th,
         rO |-> <<th[1], 2 * th[2]>>]

InitGenIdle ==
    /\ gpc = "shell"
    /\ size = 0
    /\ i = 0
    /\ canvas = <<>>
    /\ master = <<>>

\* Lines 5-35 (and 73-74): the canvas with the rounded rectangle on it
GenStart ==
    /\ gpc = "shell"
    /\ \E s \in GenSizes :
          /\ size' = s
          /\ canvas' = <<[kind |-> "background", fill |-> bg_color,
                          at |-> [radius |-> s \div 5]]>>
    /\ i' = 0
    /\ gpc' = "loop"
    /\ UNCHANGED master
    /\ UNCHANGED <<evars, svars>>

\* Lines 37-64: one iteration of "for i in range(steps)"
GenSample ==
    /\ gpc = "loop"
    /\ i < steps
    /\ canvas' = Append(canvas, [kind |-> "stroke", fill |-> Color(T(i)),
                                 at |-> LoopBody(size, T(i))])
    /\ IF i = steps - 1
       THEN gpc' = "highlight" /\ i' = i
       ELSE gpc' = "loop" /\ i' = i + 1
    /\ UNCHANGED <<size, master>>
    /\ UNCHANGED <<evars, svars>>

\* Lines 67-68: the ellipse in [size*0.1, size*0.1, size*0.9, size*0.5]
GenHighlight ==
    /\ gpc = "highlight"
    /\ canvas' = Append(canvas, [kind |-> "highlight", fill |-> highlight_color,
                                 at |-> [box |-> <<size, size, 9 * size, 5 * size>>,
                                         den |-> 10]])
    /\ gpc' = "save"
    /\ UNCHANGED <<size, i, master>>
    /\ UNCHANGED <<evars, svars>>

\* Lines 70-71
GenSave ==
    /\ gpc = "save"
    /\ master' = <<[path |-> "icon_master.png", w |-> size, h |-> size,
                    drawn |-> canvas]>>
    /\ gpc' = "done"
    /\ UNCHANGED <<size, i, canvas>>
    /\ UNCHANGED <<evars, svars>>

\* The stroke samples on the canvas, in drawing order
Samples == SelectSeq(canvas, LAMBDA o : o.kind = "stroke")

-----------------------------------------------------------------------------
\* The loop body as a function of t, evaluated at t = n/d in [0, 1]

InitStrokeIdle ==
    /\ st = [size |-> 0, t |-> <<0, 1>>]
    /\ sres = <<>>

InitStroke ==
    /\ st \in {[size |-> s, t |-> <<n, d>>] :
                 s \in GenSizes, n \in 0..MaxDen, d \in 1..MaxDen}
    /\ st.t[1] <= st.t[2]
    /\ sres = <<>>

EvalStroke ==
    /\ sres = <<>>
    /\ sres' = <<LoopBody(st.size, st.t)>>
    /\ UNCHANGED st
    /\ UNCHANGED <<evars, gvars>>

-----------------------------------------------------------------------------
\* Specifications

Init == InitExport /\ InitGenIdle /\ InitStrokeIdle

Next ==
    \/ Main
    \/ CheckSource
    \/ MakeDirectories
    \/ OpenImage
    \/ LoopSave
    \/ SaveIco
    \/ SavePublic

\* The exporter, run up to MaxRuns times in a row
Spec == Init /\ [][Next]_vars

InitGen == InitExportIn({}, EmptyFs) /\ InitGenIdle /\ InitStrokeIdle

NextGen ==
    \/ GenStart
    \/ GenSample
    \/ GenHighlight
    \/ GenSave

\* The generator, run once
SpecGen == InitGen /\ [][NextGen]_vars

InitEval == InitExportIn({}, EmptyFs) /\ InitGenIdle /\ InitStroke

NextEval == EvalStroke

\* The loop body evaluated at every t = n/d, 0 <= n <= d <= MaxDen
SpecStroke == InitEval /\ [][NextEval]_vars

-----------------------------------------------------------------------------
\* Properties of the exporter (checked under Spec)

\* The current invocation named a source, and the source does not exist.
SourceMissing == source_path # "none" /\ source_path \notin DOMAIN SourceFiles

\* The current invocation loaded its source and ran to the end.
Successful == pc = "done" /\ source_path \in DOMAIN SourceFiles

SavedPaths == {saves[j].path : j \in 1..Len(saves)}

\* C1: called with a source path that does not exist, process_icon reports
\* the error and returns normally, and nothing happened: no directory was
\* created, no file written or changed, no save attempted.
C1_MissingSourceNoSideEffect ==
    (SourceMissing /\ pc # "check") =>
        /\ pc = "done"
        /\ output = <<<<"Error: Source file not found at", source_path>>>>
        /\ dirs = start.dirs
        /\ fs = start.fs
        /\ saves = <<>>

C1_Witness ==
    /\ SourceMissing
    /\ pc = "done"
    /\ start.dirs = {}
    /\ TauriDir \notin dirs /\ PublicDir \notin dirs

\* C2: after a successful run, the file of every size-table entry has
\* exactly the entry's pixel dimensions, whatever the source's dimensions,
\* and the public icon.png is exactly 512x512.
C2_OutputDimensions ==
    Successful =>
        /\ \A j \in 1..Len(sizes) :
              LET p == Join(TauriDir, sizes[j].name)
              IN  /\ p \in DOMAIN fs
                  /\ fs[p].fmt = "PNG"
                  /\ Len(fs[p].frames) = 1
                  /\ <<fs[p].frames[1].w, fs[p].frames[1].h>> = sizes[j].size
        /\ LET q == Join(PublicDir, "icon.png")
           IN  /\ q \in DOMAIN fs
               /\ fs[q].fmt = "PNG"
               /\ Len(fs[q].frames) = 1
               /\ fs[q].frames[1].w = 512 /\ fs[q].frames[1].h = 512

\* A successful run from a source that is neither square nor 1024 wide.
C2_Witness ==
    /\ Successful
    /\ img.w # img.h
    /\ img.w < 512
    /\ fs[Join(TauriDir, "Square310x310Logo.png")].frames[1].w = 310

\* The 14 file names of the size table, in order, then the two others.
ExpectedPaths ==
    << <<"src-tauri/icons", "icon.png">>,
       <<"src-tauri/icons", "32x32.png">>,
       <<"src-tauri/icons", "128x128.png">>,
       <<"src-tauri/icons", "128x128@2x.png">>,
       <<"src-tauri/icons", "Square30x30Logo.png">>,
       <<"src-tauri/icons", "Square44x44Logo.png">>,
       <<"src-tauri/icons", "Square71x71Logo.png">>,
       <<"src-tauri/icons", "Square89x89Logo.png">>,
       <<"src-tauri/icons", "Square107x107Logo.png">>,
       <<"src-tauri/icons", "Square142x142Logo.png">>,
       <<"src-tauri/icons", "Square150x150Logo.png">>,
       <<"src-tauri/icons", "Square284x284Logo.png">>,
       <<"src-tauri/icons", "Square310x310Logo.png">>,
       <<"src-tauri/icons", "StoreLogo.png">>,
       <<"src-tauri/icons", "icon.ico">>,
       <<"public", "icon.png">> >>

\* C3: a successful run writes exactly N+2 = 16 files: one PNG per
\* size-table name in the packaging directory, then icon.ico there, then
\* icon.png in the public directory; no two writes go to the same file and
\* no other file appears.
C3_ExactlyNPlus2Files ==
    Successful =>
        /\ Len(saves) = Len(sizes) + 2
        /\ Len(saves) = 16
        /\ \A j \in 1..Len(saves) :
              saves[j].ok /\ saves[j].path = ExpectedPaths[j]
        /\ Cardinality(SavedPaths) = Len(saves)
        /\ DOMAIN fs = DOMAIN start.fs \cup SavedPaths

C3_Witness ==
    /\ Successful
    /\ Len(saves) = 16
    /\ start.fs = EmptyFs
    /\ Cardinality(DOMAIN fs) = 16

\* The image is the source's, and it was resampled exactly once, from the
\* source's own pixels.
DerivedFrom(im, src) ==
    /\ im.origin = src.origin
    /\ im.hist = <<<<src.w, src.h>>>>

\* C4: once loaded, img is never modified, and every image written (each
\* size-table PNG, each ICO frame, the public PNG) is resampled from the
\* loaded image itself, never from a resized one.
C4_SourceImageUntouched ==
    (pc \in {"loop", "ico", "public"} \/ (pc \in {"done", "failed"} /\ img # NoImg)) =>
        /\ img = Loaded(source_path)
        /\ img.hist = <<>>
        /\ \A j \in 1..Len(saves) :
              \A f \in 1..Len(saves[j].content.frames) :
                  DerivedFrom(saves[j].content.frames[f], Loaded(source_path))
        /\ \A j \in 1..Len(saves) :
              saves[j].ok => fs[saves[j].path] = saves[j].content

C4_Witness ==
    /\ Successful
    /\ Len(saves) = 16
    /\ img = Loaded(source_path)
    /\ resized.hist = <<<<img.w, img.h>>>>

\* C7: after a successful run with a 1024x1024 source, the one file
\* icon.ico of the packaging directory embeds exactly the 6 sizes 256, 128,
\* 64, 48, 32 and 16 (square), each derived from the canonical image.
C7_IcoEmbedsSixSizes ==
    (Successful /\ Loaded(source_path).w = 1024 /\ Loaded(source_path).h = 1024) =>
        LET p == Join(TauriDir, "icon.ico")
        IN  /\ p \in DOMAIN fs
            /\ fs[p].fmt = "ICO"
            /\ Len(fs[p].frames) = 6
            /\ {<<fs[p].frames[f].w, fs[p].frames[f].h>> : f \in 1..Len(fs[p].frames)}
                 = {<<256, 256>>, <<128, 128>>, <<64, 64>>, <<48, 48>>,
                    <<32, 32>>, <<16, 16>>}
            /\ \A f \in 1..Len(fs[p].frames) : DerivedFrom(fs[p].frames[f], img)
            /\ Cardinality({j \in 1..Len(saves) : saves[j].path = p}) = 1
            /\ Cardinality({q \in DOMAIN fs : fs[q].fmt = "ICO"}) = 1

C7_Witness ==
    /\ Successful
    /\ img.w = 1024 /\ img.h = 1024
    /\ Len(fs[Join(TauriDir, "icon.ico")].frames) = 6

\* C8: a successful run that follows a successful run with the same source
\* leaves exactly the files the first run left, with the same contents.
C8_SecondRunSameFiles ==
    (Successful /\ runs >= 2 /\ prev.ok /\ prev.src = source_path) =>
        fs = start.fs

C8_Witness ==
    /\ Successful
    /\ runs >= 2
    /\ prev.ok /\ prev.src = source_path
    /\ Len(saves) = 16

\* C10: a save that fails ends the run at once: it is the last save call
\* of the invocation (nothing later is written, nothing is retried), every
\* file written before it still holds what was written, and every file the
\* run did not save to is as it was when the run began.
C10_SaveFailureIsFatal ==
    \A j \in 1..Len(saves) :
        ~saves[j].ok =>
            /\ j = Len(saves)
            /\ pc = "failed"
            /\ \A h \in 1..(j - 1) :
                  /\ saves[h].ok
                  /\ saves[h].path # saves[j].path
                  /\ saves[h].path \in DOMAIN fs
                  /\ fs[saves[h].path] = saves[h].content
            /\ \A p \in (DOMAIN fs \cup DOMAIN start.fs) \ SavedPaths :
                  p \in DOMAIN fs /\ p \in DOMAIN start.fs /\ fs[p] = start.fs[p]

\* icon.ico fails after the 14 PNGs; public/icon.png is not written.
C10_Witness ==
    /\ pc = "failed"
    /\ Len(saves) = 15
    /\ ~saves[15].ok
    /\ saves[14].ok
    /\ start.fs = EmptyFs
    /\ Join(PublicDir, "icon.png") \notin DOMAIN fs

-----------------------------------------------------------------------------
\* Properties of the generator

\* Comparison of rationals (over equal denominators: of the numerators)
RatLess(a, b) == IF a[2] = b[2] THEN a[1] < b[1] ELSE a[1] * b[2] < b[1] * a[2]
RatLeq(a, b) == IF a[2] = b[2] THEN a[1] <= b[1] ELSE a[1] * b[2] <= b[1] * a[2]
RatEq(a, b) == a[1] * b[2] = b[1] * a[2]

\* C5 (checked under SpecStroke): the stroke colour at t = 0 is c1, at
\* t = 1/2 it is c2, where the two segments give the same colour, and at
\* t = 1 it is c3; alpha is 255 throughout.
C5_ColourAnchors ==
    sres # <<>> =>
        LET t == st.t
            c == sres[1].color
        IN  /\ c[4] = 255
            /\ t[1] = 0 => c = <<0, 198, 255, 255>>
            /\ 2 * t[1] = t[2] =>
                  /\ c = <<140, 50, 255, 255>>
                  /\ Segment(c1, c2, LocalT1(t)) = <<140, 50, 255>>
                  /\ Segment(c2, c3, LocalT2(t)) = <<140, 50, 255>>
            /\ t[1] = t[2] => c = <<255, 30, 150, 255>>

C5_Witness ==
    /\ sres # <<>>
    /\ st.t = <<2, 4>>
    /\ sres[1].color = <<140, 50, 255, 255>>

\* C6 (checked under SpecGen): over the samples drawn, the thickness never
\* exceeds 0.15*size, which is its value at t = 1/2, and of two samples the
\* one farther from t = 1/2 is strictly thinner.
C6_ThicknessTapers ==
    gpc \in {"highlight", "save", "done"} =>
        LET S == Samples
            full == <<3 * size, 20>>
            dist(o) == Abs(2 * o.at.t[1] - o.at.t[2])
        IN  /\ RatEq(Thickness(size, <<1, 2>>), full)
            /\ \A a \in 1..Len(S) : RatLeq(S[a].at.thickness, full)
            /\ \A a, b \in 1..Len(S) :
                  dist(S[a]) < dist(S[b]) =>
                      RatLess(S[b].at.thickness, S[a].at.thickness)

C6_Witness ==
    /\ gpc = "done"
    /\ Len(Samples) = 200
    /\ RatLess(Samples[1].at.thickness, Samples[100].at.thickness)
    /\ RatLess(Samples[200].at.thickness, Samples[101].at.thickness)

\* C9 as stated (checked under SpecGen): every sample has 0 <= t < 1.
C9_Original_HalfOpen ==
    \A a \in 1..Len(Samples) :
        LET t == Samples[a].at.t
        IN  0 <= t[1] /\ t[1] < t[2]

\* C9 amended: the 200 samples are t = j/199 for j = 0..199, uniformly
\* spaced over the closed interval [0, 1]: every sample has 0 <= t <= 1,
\* the first is t = 0 and the last is t = 1.
C9_ClosedInterval ==
    LET S == Samples
    IN  /\ \A a \in 1..Len(S) :
              /\ S[a].at.t[2] = 199
              /\ S[a].at.t[1] = a - 1
              /\ 0 <= S[a].at.t[1] /\ S[a].at.t[1] <= S[a].at.t[2]
        /\ gpc \in {"highlight", "save", "done"} =>
              /\ Len(S) = 200
              /\ S[1].at.t[1] = 0
              /\ S[200].at.t[1] = S[200].at.t[2]

C9_Witness ==
    /\ gpc = "done"
    /\ Len(Samples) = 200
    /\ Samples[200].at.t = <<199, 199>>

====
